---- MODULE Spec2Model ----
(***************************************************************************)
(* In-silico solvent optimization                                          *)
(* (src/case_studies/in_silico_studies/solvent_optimization.py).           *)
(*                                                                         *)
(* Five specifications over one set of variables:                          *)
(*   Spec        the closed-loop driver: descriptors_optimization,         *)
(*               generate_initial_experiment_data and run_optimization,    *)
(*               called up to MaxRuns times by one caller;                 *)
(*   OracleSpec  two Experiments objects and the RandomState objects they  *)
(*               hold, called in any order;                                *)
(*   PcsSpec     create_pcs_ds on a descriptor table;                      *)
(*   RunSpec     one call of Experiments._run with a reaction time;        *)
(*   SweepSpec   fullfact on a list of level counts, and repeat_test.      *)
(* Each specification leaves the variables of the others at rest.          *)
(*                                                                         *)
(* Numbers are scaled to integers: concentrations in units of 0.01 mol/L,  *)
(* conversion and de in whole percent, randn() in three levels -1, 0, 1.   *)
(* A Python exception is a record with ok = FALSE.                         *)
(***************************************************************************)
EXTENDS Integers, Sequences, FiniteSets, TLC

(***************************************************************************)
(* Bounds of the model.                                                    *)
(***************************************************************************)
NumSolvents == 3
MaxBatchSize == 2
MaxNumBatches == 3
MaxSeed == 1
MaxRuns == 2
MaxCalls == 3
RunSolvents == 2

(***************************************************************************)
(* Program constants.                                                      *)
(***************************************************************************)
RANDOM_SEED == 1000
BATCH_SIZE == 8
NUM_BATCHES == 4
NUM_COMPONENTS == 3

\* initial_concentrations=[0.5,0.5], in units of 0.01
initial_concentrations == <<50, 50>>

\* Number of points of trange for the unperturbed reaction time; the source
\* has (25200-0)/200 = 126, scaled down to keep the integration short.
BasePoints == 4

\* step_size=200: time is counted in halves of a step.
step_size == 2

\* rxn_time=25200: BasePoints steps.
rxn_time == BasePoints * step_size

\* A Python value that may be None: <<>> is None, <<v>> holds v.
None == <<>>

Some(v) == <<v>>

The(o) == o[1]

Min(a, b) == IF a <= b THEN a ELSE b

(***************************************************************************)
(* numpy.random.RandomState: a seed and the number of values drawn so far. *)
(* The k-th value of the stream of a seed is a fixed function of both.     *)
(***************************************************************************)
RandomState(seed) == [seed |-> seed, pos |-> 0]

Stream(seed, pos) == ((seed + 2) * (pos + 1) * (pos + 3) + pos * pos * pos) % 11

\* random_state.randn(1): the next value, as a level in -1..1
randn(rs) == (Stream(rs.seed, rs.pos) % 3) - 1

Advance(rs) == [rs EXCEPT !.pos = @ + 1]

(***************************************************************************)
(* The solvent catalog (the dataset returned by create_pcs_ds): one row    *)
(* per solvent, with its cas number and, in place of the three principal   *)
(* components, the two rate coefficients kd1, kd2 that _rate derives from  *)
(* them, and whether the vode integrator fails on it.                      *)
(***************************************************************************)
CasOf(j) == 100 + 11 * j

Catalog(n, bad) ==
    [j \in 1..n |-> [cas |-> CasOf(j),
                     kd1 |-> 1 + ((j * 3) % 5),
                     kd2 |-> 1 + (j % 3),
                     stiff |-> (j = bad)]]

\* self.cas_numbers = self.solvent_ds.index.values.tolist()
cas_numbers(ds) == [j \in 1..Len(ds) |-> ds[j].cas]

\* list.index(x): the first position holding x (0 when absent: ValueError)
IndexOf(s, x) ==
    IF \E j \in 1..Len(s) : s[j] = x
    THEN CHOOSE j \in 1..Len(s) : s[j] = x /\ \A m \in 1..(j - 1) : s[m] # x
    ELSE 0

\* self.solvent_ds.loc[solvent_cas]
Loc(ds, cas) == ds[IndexOf(cas_numbers(ds), cas)]

(***************************************************************************)
(* Experiments.ca, Experiments.cb and Experiments._rate                    *)
(***************************************************************************)
\* Mutant: the rates do not fall as the reactants are used up.
_rateUndepleted(x, solvent) ==
    << (solvent.kd1 * initial_concentrations[1] * initial_concentrations[2])
          \div 1000,
       (solvent.kd2 * initial_concentrations[1] * initial_concentrations[2])
          \div 1000 >>

ca(x) == initial_concentrations[1] - x[1] - x[2]

cb(x) == initial_concentrations[2] - x[1] - x[2]

\* x1dot, x2dot per unit of time, with the 1/1000 of the scaling
_rate(x, solvent) ==
    << (solvent.kd1 * ca(x) * cb(x)) \div 1000,
       (solvent.kd2 * ca(x) * cb(x)) \div 1000 >>

(***************************************************************************)
(* Experiments._integrate_rate: x at each point of trange, from [0, 0];    *)
(* a RuntimeError when the integrator reports failure.  The value is the   *)
(* last row of x, or <<>> when trange has no point and x no row.  With one *)
(* point the loop body does not run: the row is [0, 0] and the integrator  *)
(* is never called.                                                        *)
(***************************************************************************)
RECURSIVE IntegrateFrom(_, _, _)
IntegrateFrom(x, solvent, steps) ==
    IF steps = 0 THEN x
    ELSE LET d == _rate(x, solvent)
         IN  IntegrateFrom(<<x[1] + d[1], x[2] + d[2]>>, solvent, steps - 1)

_integrate_rate(ds, solvent_cas, npoints) ==
    LET solvent == Loc(ds, solvent_cas)
    IN  IF npoints <= 0 THEN [ok |-> TRUE, x |-> <<>>]
        ELSE IF npoints >= 2 /\ solvent.stiff
        THEN [ok |-> FALSE, error |-> <<"RuntimeError", solvent_cas>>]
        ELSE [ok |-> TRUE, x |-> IntegrateFrom(<<0, 0>>, solvent, npoints - 1)]

\* Mutant: the length of the integration drifts with the number of draws
\* made before.
_runDrifting(ds, rs, solvent_cas) ==
    LET z == randn(rs)
        r == _integrate_rate(ds, solvent_cas, BasePoints + z + (rs.pos % 2))
    IN  IF ~r.ok
        THEN [ok |-> FALSE, error |-> r.error, rs |-> Advance(rs)]
        ELSE [ok |-> TRUE,
              value |-> <<(r.x[1] * 100) \div initial_concentrations[1],
                          (r.x[1] * 100) \div (r.x[1] + r.x[2])>>,
              rs |-> Advance(rs)]

(***************************************************************************)
(* Experiments._run: one draw of the random state perturbs the reaction    *)
(* time, then the integration; returns the result and the random state     *)
(* after the draw.                                                         *)
(***************************************************************************)
\* rxn_time + self.random_state.randn(1)*0.01*rxn_time, scaled: one level of
\* randn is a quarter of the reaction time.
Perturbed(t, z) == t + z * (t \div 4)

\* The number of points of np.linspace(t0, t, (t-t0)/step_size)
NumPoints(t) == t \div step_size

\* _run with the rxn_time argument given.  The last row of conversion and de:
\* an IndexError when x has no row; cd1/(cd1+cd2) is 0/0 = nan when the row
\* is [0, 0] (nan is TRUE then and the second entry of value stands for it).
_run_rxn_time(ds, rs, solvent_cas, t) ==
    LET z == randn(rs)
        r == _integrate_rate(ds, solvent_cas, NumPoints(Perturbed(t, z)))
    IN  IF ~r.ok
        THEN [ok |-> FALSE, error |-> r.error, rs |-> Advance(rs)]
        ELSE IF r.x = <<>>
        THEN [ok |-> FALSE, error |-> <<"IndexError", solvent_cas>>,
              rs |-> Advance(rs)]
        ELSE LET cd1 == r.x[1]
                 cd2 == r.x[2]
                 conversion == (cd1 * 100)
                                 \div Min(initial_concentrations[1],
                                          initial_concentrations[2])
                 de == IF cd1 + cd2 = 0 THEN 0
                       ELSE (cd1 * 100) \div (cd1 + cd2)
             IN  [ok |-> TRUE, value |-> <<conversion, de>>,
                  nan |-> (cd1 + cd2 = 0), rs |-> Advance(rs)]

_run(ds, rs, solvent_cas) == _run_rxn_time(ds, rs, solvent_cas, rxn_time)

(***************************************************************************)
(* Experiments.__init__: with pre_calculate, _run on every cas number in   *)
(* catalog order, each drawing from the random state.                      *)
(***************************************************************************)
RECURSIVE PreCalculate(_, _, _, _)
PreCalculate(ds, rs, j, acc) ==
    IF j > Len(ds) THEN [ok |-> TRUE, all_experiments |-> acc, rs |-> rs]
    ELSE LET r == _run(ds, rs, ds[j].cas)
         IN  IF ~r.ok THEN [ok |-> FALSE, error |-> r.error, rs |-> r.rs]
             ELSE PreCalculate(ds, r.rs, j + 1, Append(acc, r.value))

Experiments_init(ds, rs, pre_calculate) ==
    IF pre_calculate
    THEN LET p == PreCalculate(ds, rs, 1, <<>>)
         IN  IF ~p.ok THEN [ok |-> FALSE, error |-> p.error, rs |-> p.rs]
             ELSE [ok |-> TRUE, rs |-> p.rs,
                   self |-> [pre_calculate |-> TRUE,
                             all_experiments |-> Some(p.all_experiments)]]
    ELSE [ok |-> TRUE, rs |-> rs,
          self |-> [pre_calculate |-> FALSE, all_experiments |-> None]]

\* Mutant: the cache is not consulted.
Experiments_runUncached(self, ds, rs, solvent_cas) == _run(ds, rs, solvent_cas)

(***************************************************************************)
(* Experiments.run: the cached row of the cas number when there is a       *)
(* cache, a fresh _run otherwise.                                          *)
(***************************************************************************)
CachedRow(self, ds, solvent_cas) ==
    The(self.all_experiments)[IndexOf(cas_numbers(ds), solvent_cas)]

Experiments_run(self, ds, rs, solvent_cas) ==
    IF self.all_experiments = None
    THEN _run(ds, rs, solvent_cas)
    ELSE [ok |-> TRUE, value |-> CachedRow(self, ds, solvent_cas), rs |-> rs]

(***************************************************************************)
(* The strategy (TSEMO, an external library): what the driver relies on is *)
(* that generate_experiments returns batch_size candidates of the domain   *)
(* and a hypervolume improvement, or raises.  Its choice is modelled as a  *)
(* fixed function of the data it is given and of the strategy's own        *)
(* parameters: salt varies the choice, failAt names the call that raises   *)
(* (0: none); the normalize flags of the call vary the choice too.         *)
(***************************************************************************)
RECURSIVE SumConversion(_)
SumConversion(rows) ==
    IF rows = <<>> THEN 0 ELSE Head(rows).conversion + SumConversion(Tail(rows))

NormalizeShift(normalize_inputs, normalize_outputs) ==
    (IF normalize_inputs THEN 1 ELSE 0) + (IF normalize_outputs THEN 2 ELSE 0)

generate_experiments(tsemo, ds, previous, num_experiments, normalize_inputs, normalize_outputs, call) ==
    IF tsemo.failAt = call
    THEN [ok |-> FALSE, error |-> <<"StrategyFailure", call>>]
    ELSE [ok |-> TRUE,
          design |-> [j \in 1..num_experiments |->
                        ds[((SumConversion(previous) + Len(previous)
                             + tsemo.salt
                             + NormalizeShift(normalize_inputs,
                                              normalize_outputs)
                             + j) % Len(ds)) + 1].cas],
          hv_imp |-> 1 + ((SumConversion(previous) + tsemo.salt) % 5)]

\* model._model.kern.lengthscale.values, model._model.log_likelihood() and
\* tsemo.loo_errors(): values of the models fitted by the last call, never 0
ModelLengthscale(tsemo, previous) == 1 + ((Len(previous) + tsemo.salt) % 4)

ModelLogLikelihood(tsemo, previous) == -1 - (SumConversion(previous) % 7)

ModelLooError(tsemo, previous) == 1 + ((SumConversion(previous) + Len(previous)) % 3)

(***************************************************************************)
(* LatinDesigner.generate_experiments (external): num_experiments cas      *)
(* numbers of the domain, chosen from as many draws of the random state.   *)
(***************************************************************************)
CriterionShift(criterion) == IF criterion = "center" THEN 0 ELSE 1

RECURSIVE LatinDesign(_, _, _, _, _)
LatinDesign(ds, rs, n, criterion, acc) ==
    IF n = 0 THEN [design |-> acc, rs |-> rs]
    ELSE LatinDesign(ds, Advance(rs), n - 1, criterion,
                     Append(acc, ds[((Stream(rs.seed, rs.pos)
                                      + CriterionShift(criterion)
                                      + Len(acc)) % Len(ds)) + 1].cas))

(***************************************************************************)
(* State of the driver.  A local that is not bound yet is <<>>.            *)
(***************************************************************************)
VARIABLES
    cfg,                   \* the keyword arguments of the run
    tsemo,                 \* the parameters of the strategy
    solvent_ds,            \* the catalog
    solvent_pcs_ds,        \* the kind of object bound to the catalog's name
    runNo,                 \* which call of the caller this is
    random_seed,           \* the random_seed keyword of this call
    pc,                    \* position of the driver
    random_state,          \* None, or the RandomState of this call
    exp,                   \* None, or the Experiments object
    initial_design,        \* the cas numbers of the seed batch
    initial_experiments,   \* the seed batch as a DataSet
    previous_experiments,  \* run_optimization's ledger
    i,                     \* run_optimization's loop index
    design,                \* the batch proposed in this round
    hv_imp,                \* its hypervolume improvement
    new_experiments,       \* the results of the batch under evaluation
    lengthscales, log_likelihoods, loo_errors, hv_improvements,
    result,                \* what the caller receives: None or the result
    error,                 \* the exception the caller receives, or None
    proposeCalls,          \* calls of generate_experiments in this call
    proposals,             \* the arguments of each of these calls, in order
    runCalls,              \* calls of Experiments.run in this call
    firstOutcome           \* None, or seed and outcome of the first call

\* State of the Experiments objects on their own.
VARIABLES
    randomStates,   \* identity -> RandomState
    instances,      \* instance -> None, or the Experiments object
    raised,         \* the instances whose __init__ raised
    computed,       \* instance -> the rows _run returned in __init__
    simulations,    \* instance -> number of _run calls the instance made
    history         \* the run() calls made: instance, cas, draw, value

\* State of create_pcs_ds.
VARIABLES
    values,       \* solvent_ds_final.data_to_numpy().astype(np.float64)
    pcs_pc,       \* position in create_pcs_ds
    pcs_rows      \* number of rows of the dataset returned

\* State of one call of Experiments._run with a reaction time of its own.
VARIABLES
    run_args,     \* the arguments: cas number, reaction time, random state
    run_result    \* None, or what the call returned or raised

\* State of repeat_test and of fullfact.
VARIABLES
    levels,       \* the argument of fullfact
    doe,          \* None, or what fullfact returned
    num_repeats,  \* the argument of repeat_test
    sweep_pc,     \* position in repeat_test
    sweep_j,      \* index of the design
    sweep_i,      \* index of the repeat
    calls         \* the calls of descriptors_optimization made, in order
\* State of a SolventEvolutionaryOptimization object.
VARIABLES
    evo_pc,          \* position: __init__, the initial population, evaluation
    evo_error,       \* None, or the exception __init__ raised
    self_cas_numbers,\* self.cas_numbers
    pop_size,        \* pop_size of ea.evolve (self.batch_size)
    candidates,      \* the candidates the generator has returned
    evaluated        \* the lookups the evaluator made and how it ended

oracleVars == <<randomStates, instances, raised, computed, simulations,
               history>>

pcsVars == <<values, pcs_pc, pcs_rows>>

runVars == <<run_args, run_result>>

sweepVars == <<levels, doe, num_repeats, sweep_pc, sweep_j, sweep_i, calls>>

evoVars == <<evo_pc, evo_error, self_cas_numbers, pop_size, candidates,
             evaluated>>

\* The variables of the specifications of single functions.
pureVars == <<runVars, sweepVars, evoVars>>

\* The variables of the specifications other than the driver's.
otherVars == <<oracleVars, pcsVars, pureVars>>

configVars == <<cfg, tsemo, solvent_ds, solvent_pcs_ds>>

diagVars == <<lengthscales, log_likelihoods, loo_errors, hv_improvements>>

driverVars == <<cfg, tsemo, solvent_ds, solvent_pcs_ds, runNo, random_seed, pc, random_state,
                exp, initial_design, initial_experiments,
                previous_experiments, i, design, hv_imp, new_experiments,
                lengthscales, log_likelihoods, loo_errors, hv_improvements,
                result, error, proposeCalls, proposals, runCalls, firstOutcome>>

Seeds == 0..MaxSeed

\* The keyword arguments: small values, and the defaults of the module.
\* pre_calculate is TRUE in descriptors_optimization; FALSE is a caller that
\* does the same setup with an Experiments object without a cache.
Configs ==
    [batch_size : 1..MaxBatchSize,
     num_batches : 1..MaxNumBatches,
     num_initial_experiments : 1..MaxBatchSize,
     normalize_inputs : BOOLEAN,
     normalize_outputs : BOOLEAN,
     design_criterion : {"center"},
     pre_calculate : BOOLEAN]
    \cup
    [batch_size : {BATCH_SIZE},
     num_batches : {NUM_BATCHES},
     num_initial_experiments : {BATCH_SIZE},
     normalize_inputs : {TRUE},
     normalize_outputs : {TRUE},
     design_criterion : {"center", "maximin"},
     pre_calculate : BOOLEAN]

\* The strategies: one that never raises for each salt, and one for each call
\* that raises.
Strategies ==
    {t \in [salt : 0..1, failAt : 0..(MaxNumBatches - 1)] :
        t.salt = 0 \/ t.failAt = 0}

\* The catalogs: without a solvent the integrator fails on, or with one.
Catalogs == {Catalog(NumSolvents, bad) : bad \in {0, 1, NumSolvents}}

\* What the name solvent_pcs_ds is bound to.  create_pcs_ds returns the pair
\* (dataset, pca); descriptors_optimization binds the pair itself ("tuple");
\* a caller that unpacks the pair binds the dataset ("DataSet").
PcsBindings == {"tuple", "DataSet"}

\* The locals of one call, before it starts.
FreshCall ==
    /\ pc = "start"
    /\ random_state = None
    /\ exp = None
    /\ initial_design = <<>>
    /\ initial_experiments = <<>>
    /\ previous_experiments = <<>>
    /\ i = 0
    /\ design = <<>>
    /\ hv_imp = 0
    /\ new_experiments = <<>>
    /\ lengthscales = <<>>
    /\ log_likelihoods = <<>>
    /\ loo_errors = <<>>
    /\ hv_improvements = <<>>
    /\ result = None
    /\ error = None
    /\ proposeCalls = 0
    /\ proposals = <<>>
    /\ runCalls = 0

DriverInit ==
    /\ cfg \in Configs
    /\ tsemo \in Strategies
    /\ solvent_ds \in Catalogs
    /\ solvent_pcs_ds \in PcsBindings
    /\ runNo = 1
    /\ random_seed \in Seeds
    /\ firstOutcome = None
    /\ FreshCall

\* Mutant: the exception is caught and the partial results are returned.
RaiseReturningPartial(e) ==
    /\ pc' = "failed"
    /\ error' = Some(e)
    /\ result' = Some([experiments |-> previous_experiments,
                       lengthscales |-> lengthscales,
                       log_likelihoods |-> log_likelihoods,
                       loo_cv_errors |-> loo_errors,
                       hv_improvements |-> hv_improvements])

\* Mutant: the exception is logged and the call goes on.
RaiseSuppressed(e) ==
    /\ pc' = pc
    /\ error' = Some(e)
    /\ result' = None

\* An exception leaves the function: the caller receives it and no result.
Raise(e) ==
    /\ pc' = "failed"
    /\ error' = Some(e)
    /\ result' = None

\* np.zeros(n)
Zeros(n) == [j \in 1..n |-> 0]

(***************************************************************************)
(* descriptors_optimization, setup: the random state of the seed and the   *)
(* Experiments object drawing from it.  Experiments.__init__ reads         *)
(* solvent_ds.index.values: on a tuple, index is the tuple's method and    *)
(* the attribute access raises AttributeError.                             *)
(***************************************************************************)
\* Mutant: RandomState() without the seed, seeded from the clock.
ClockRandomState(seed) == RandomState(runNo)

SeededRandomState(seed) == RandomState(seed)

Setup ==
    /\ pc = "start"
    /\ IF solvent_pcs_ds = "tuple"
       THEN /\ random_state' = Some(SeededRandomState(random_seed))
            /\ Raise(<<"AttributeError", 0>>)
            /\ UNCHANGED exp
       ELSE LET e == Experiments_init(solvent_ds,
                                      SeededRandomState(random_seed),
                                      cfg.pre_calculate)
            IN  /\ random_state' = Some(e.rs)
                /\ IF e.ok
                   THEN /\ exp' = Some(e.self)
                        /\ pc' = "initial_design"
                        /\ UNCHANGED <<result, error>>
                   ELSE /\ Raise(e.error)
                        /\ UNCHANGED exp
    /\ UNCHANGED <<configVars, runNo, random_seed, initial_design,
                   initial_experiments, previous_experiments, i, design,
                   hv_imp, new_experiments, diagVars, proposeCalls, proposals, runCalls,
                   firstOutcome,
                   otherVars>>

(***************************************************************************)
(* generate_initial_experiment_data                                        *)
(***************************************************************************)
InitialDesign ==
    /\ pc = "initial_design"
    /\ LET d == LatinDesign(solvent_ds, The(random_state),
                            cfg.num_initial_experiments,
                            cfg.design_criterion, <<>>)
       IN  /\ initial_design' = d.design
           /\ random_state' = Some(d.rs)
    /\ new_experiments' = <<>>
    /\ pc' = "initial_run"
    /\ UNCHANGED <<configVars, runNo, random_seed, exp, initial_experiments,
                   previous_experiments, i, design, hv_imp, diagVars, result,
                   error, proposeCalls, proposals, runCalls, firstOutcome,
                   otherVars>>

\* Mutant: each result is appended to the ledger as soon as it is there.
RunNextAppending(batch) ==
    /\ Len(new_experiments) < Len(batch)
    /\ LET r == Experiments_run(The(exp), solvent_ds, The(random_state),
                                batch[Len(new_experiments) + 1])
       IN  /\ random_state' = Some(r.rs)
           /\ runCalls' = runCalls + 1
           /\ IF r.ok
              THEN /\ new_experiments' = Append(new_experiments, r.value)
                   /\ previous_experiments' =
                         Append(previous_experiments,
                                [conversion |-> r.value[1],
                                 de |-> r.value[2],
                                 solvent |-> batch[Len(new_experiments) + 1],
                                 batch |-> IF pc = "experiments" THEN i + 1 ELSE 0,
                                 index |-> Len(previous_experiments)])
                   /\ UNCHANGED <<pc, result, error>>
              ELSE /\ Raise(r.error)
                   /\ UNCHANGED <<new_experiments, previous_experiments>>
    /\ UNCHANGED <<configVars, runNo, random_seed, exp, initial_design,
                   initial_experiments, i, design, hv_imp, diagVars,
                   proposeCalls, proposals, firstOutcome, otherVars>>

\* One element of a list comprehension [experiments.run(cas) for cas in ...]
RunNext(batch) ==
    /\ Len(new_experiments) < Len(batch)
    /\ LET r == Experiments_run(The(exp), solvent_ds, The(random_state),
                                batch[Len(new_experiments) + 1])
       IN  /\ random_state' = Some(r.rs)
           /\ runCalls' = runCalls + 1
           /\ IF r.ok
              THEN /\ new_experiments' = Append(new_experiments, r.value)
                   /\ UNCHANGED <<pc, result, error>>
              ELSE /\ Raise(r.error)
                   /\ UNCHANGED new_experiments
    /\ UNCHANGED <<configVars, runNo, random_seed, exp, initial_design,
                   initial_experiments, previous_experiments, i, design,
                   hv_imp, diagVars, proposeCalls, proposals, firstOutcome,
                   otherVars>>

InitialRun ==
    /\ pc = "initial_run"
    /\ RunNext(initial_design)

\* Mutant: every row is tagged with round 0.
DataSetOfUntagged(results, solvents, batch, first) ==
    [j \in 1..Len(results) |->
        [conversion |-> results[j][1],
         de |-> results[j][2],
         solvent |-> solvents[j],
         batch |-> 0,
         index |-> first + j - 1]]

\* DataSet({...}).set_index(np.arange(first, first + n)): one row per result
DataSetOf(results, solvents, batch, first) ==
    [j \in 1..Len(results) |->
        [conversion |-> results[j][1],
         de |-> results[j][2],
         solvent |-> solvents[j],
         batch |-> batch,
         index |-> first + j - 1]]

InitialDataSet ==
    /\ pc = "initial_run"
    /\ Len(new_experiments) = Len(initial_design)
    /\ initial_experiments' = DataSetOf(new_experiments, initial_design, 0, 0)
    /\ new_experiments' = <<>>
    /\ pc' = "run_optimization"
    /\ UNCHANGED <<configVars, runNo, random_seed, random_state, exp,
                   initial_design, previous_experiments, i, design, hv_imp,
                   diagVars, result, error, proposeCalls, proposals, runCalls,
                   firstOutcome,
                   otherVars>>

(***************************************************************************)
(* run_optimization                                                        *)
(***************************************************************************)
CreateStorage ==
    /\ pc = "run_optimization"
    /\ lengthscales' = Zeros(cfg.num_batches - 1)
    /\ log_likelihoods' = Zeros(cfg.num_batches - 1)
    /\ loo_errors' = Zeros(cfg.num_batches - 1)
    /\ hv_improvements' = Zeros(cfg.num_batches - 1)
    /\ previous_experiments' = initial_experiments
    /\ i' = 0
    /\ pc' = "loop"
    /\ UNCHANGED <<configVars, runNo, random_seed, random_state, exp,
                   initial_design, initial_experiments, design, hv_imp,
                   new_experiments, result, error, proposeCalls, proposals, runCalls,
                   firstOutcome,
                   otherVars>>

\* The keyword arguments of the call of run_optimization in
\* descriptors_optimization.
run_optimization_keywords ==
    {"tsemo", "initial_experiments", "solvent_ds", "experiments",
     "num_batches", "batch_size", "num_components", "random_state"}

\* run_optimization's parameters normalize_inputs and normalize_outputs: the
\* keyword argument of the call when there is one, else the default False.
normalize_inputs ==
    IF "normalize_inputs" \in run_optimization_keywords
    THEN cfg.normalize_inputs ELSE FALSE

normalize_outputs ==
    IF "normalize_outputs" \in run_optimization_keywords
    THEN cfg.normalize_outputs ELSE FALSE

\* Mutant: one iteration more.
LoopContinuesOneMore == i < cfg.num_batches

\* range(num_batches-1) has a next value
LoopContinues == i < cfg.num_batches - 1

\* Mutant: the strategy is given the seed batch in every round.
ProposeInputSeedOnly == initial_experiments

\* The first argument of tsemo.generate_experiments
ProposeInput == previous_experiments

GenerateBatch ==
    /\ pc = "loop"
    /\ LoopContinues
    /\ proposeCalls' = proposeCalls + 1
    /\ proposals' = Append(proposals,
                           [i |-> i,
                            previous_experiments |-> ProposeInput,
                            num_experiments |-> cfg.batch_size,
                            normalize_inputs |-> normalize_inputs,
                            normalize_outputs |-> normalize_outputs])
    /\ LET g == generate_experiments(tsemo, solvent_ds, ProposeInput,
                                     cfg.batch_size, normalize_inputs,
                                     normalize_outputs, proposeCalls + 1)
       IN  IF g.ok
           THEN /\ design' = g.design
                /\ hv_imp' = g.hv_imp
                /\ pc' = "parameters"
                /\ UNCHANGED <<result, error>>
           ELSE /\ Raise(g.error)
                /\ UNCHANGED <<design, hv_imp>>
    /\ UNCHANGED <<configVars, runNo, random_seed, random_state, exp,
                   initial_design, initial_experiments, previous_experiments,
                   i, new_experiments, diagVars, runCalls, firstOutcome,
                   otherVars>>

\* Mutant: the batch is evaluated before the leave-one-out errors are there.
ModelParametersThenRun ==
    /\ pc = "parameters"
    /\ lengthscales' = [lengthscales EXCEPT
                          ![i + 1] = ModelLengthscale(tsemo, previous_experiments)]
    /\ log_likelihoods' = [log_likelihoods EXCEPT
                          ![i + 1] = ModelLogLikelihood(tsemo, previous_experiments)]
    /\ hv_improvements' = [hv_improvements EXCEPT ![i + 1] = hv_imp]
    /\ pc' = "experiments"
    /\ UNCHANGED <<configVars, runNo, random_seed, random_state, exp,
                   initial_design, initial_experiments, previous_experiments,
                   i, design, hv_imp, new_experiments, loo_errors, result,
                   error, proposeCalls, proposals, runCalls, firstOutcome,
                   otherVars>>

ModelParameters ==
    /\ pc = "parameters"
    /\ lengthscales' = [lengthscales EXCEPT
                          ![i + 1] = ModelLengthscale(tsemo, previous_experiments)]
    /\ log_likelihoods' = [log_likelihoods EXCEPT
                          ![i + 1] = ModelLogLikelihood(tsemo, previous_experiments)]
    /\ hv_improvements' = [hv_improvements EXCEPT ![i + 1] = hv_imp]
    /\ pc' = "loo"
    /\ UNCHANGED <<configVars, runNo, random_seed, random_state, exp,
                   initial_design, initial_experiments, previous_experiments,
                   i, design, hv_imp, new_experiments, loo_errors, result,
                   error, proposeCalls, proposals, runCalls, firstOutcome,
                   otherVars>>

\* Mutant: the leave-one-out errors are always written to the first record.
LooErrorsAtFirst ==
    /\ pc = "loo"
    /\ loo_errors' = [loo_errors EXCEPT
                          ![1] = ModelLooError(tsemo, previous_experiments)]
    /\ new_experiments' = <<>>
    /\ pc' = "experiments"
    /\ UNCHANGED <<configVars, runNo, random_seed, random_state, exp,
                   initial_design, initial_experiments, previous_experiments,
                   i, design, hv_imp, lengthscales, log_likelihoods,
                   hv_improvements, result, error, proposeCalls, proposals,
                   runCalls, firstOutcome, otherVars>>

LooErrors ==
    /\ pc = "loo"
    /\ loo_errors' = [loo_errors EXCEPT
                          ![i + 1] = ModelLooError(tsemo, previous_experiments)]
    /\ new_experiments' = <<>>
    /\ pc' = "experiments"
    /\ UNCHANGED <<configVars, runNo, random_seed, random_state, exp,
                   initial_design, initial_experiments, previous_experiments,
                   i, design, hv_imp, lengthscales, log_likelihoods,
                   hv_improvements, result, error, proposeCalls, proposals, runCalls,
                   firstOutcome,
                   otherVars>>

RunExperiment ==
    /\ pc = "experiments"
    /\ RunNext(design)

\* Mutant: the new batch is put in front of the ledger.
CombinedPrepending(previous, new) == new \o previous

\* Mutant: the new batch replaces the ledger.
CombinedReplacing(previous, new) == new

\* previous_experiments.append(new_experiments)
Combined(previous, new) == previous \o new

CombineData ==
    /\ pc = "experiments"
    /\ Len(new_experiments) = Len(design)
    /\ previous_experiments' =
          Combined(previous_experiments,
                   DataSetOf(new_experiments, design, i + 1,
                             cfg.batch_size * (i + 1)))
    /\ new_experiments' = <<>>
    /\ i' = i + 1
    /\ pc' = "loop"
    /\ UNCHANGED <<configVars, runNo, random_seed, random_state, exp,
                   initial_design, initial_experiments, design, hv_imp,
                   diagVars, result, error, proposeCalls, proposals, runCalls,
                   firstOutcome,
                   otherVars>>

\* optimization_results(...), returned through descriptors_optimization
\* (save_to_disk=False)
optimization_results ==
    [experiments |-> previous_experiments,
     lengthscales |-> lengthscales,
     log_likelihoods |-> log_likelihoods,
     loo_cv_errors |-> loo_errors,
     hv_improvements |-> hv_improvements]

Return ==
    /\ pc = "loop"
    /\ ~LoopContinues
    /\ result' = Some(optimization_results)
    /\ pc' = "done"
    /\ UNCHANGED <<configVars, runNo, random_seed, random_state, exp,
                   initial_design, initial_experiments, previous_experiments,
                   i, design, hv_imp, new_experiments, diagVars, error,
                   proposeCalls, proposals, runCalls, firstOutcome,
                   otherVars>>

(***************************************************************************)
(* The caller: once a call has returned or raised, it may call again with  *)
(* the same keyword arguments and the same seed; every call builds its own *)
(* random state, Experiments object and strategy.                          *)
(***************************************************************************)
Outcome == [status |-> pc, result |-> result, error |-> error]

CallAgain ==
    /\ pc \in {"done", "failed"}
    /\ runNo < MaxRuns
    /\ runNo' = runNo + 1
    /\ firstOutcome' = IF runNo = 1 THEN Some(Outcome) ELSE firstOutcome
    /\ pc' = "start"
    /\ random_state' = None
    /\ exp' = None
    /\ initial_design' = <<>>
    /\ initial_experiments' = <<>>
    /\ previous_experiments' = <<>>
    /\ i' = 0
    /\ design' = <<>>
    /\ hv_imp' = 0
    /\ new_experiments' = <<>>
    /\ lengthscales' = <<>>
    /\ log_likelihoods' = <<>>
    /\ loo_errors' = <<>>
    /\ hv_improvements' = <<>>
    /\ result' = None
    /\ error' = None
    /\ proposeCalls' = 0
    /\ proposals' = <<>>
    /\ runCalls' = 0
    /\ UNCHANGED <<configVars, random_seed,
                   otherVars>>

\* Every variable of the driver but the catalog.
driverLocals == <<cfg, tsemo, solvent_pcs_ds, runNo, random_seed, pc, random_state, exp,
                  initial_design, initial_experiments, previous_experiments,
                  i, design, hv_imp, new_experiments, diagVars, result, error,
                  proposeCalls, proposals, runCalls, firstOutcome>>

driverIdle ==
    /\ cfg = [batch_size |-> 1, num_batches |-> 1,
              num_initial_experiments |-> 1, normalize_inputs |-> TRUE,
              normalize_outputs |-> TRUE, design_criterion |-> "center",
              pre_calculate |-> FALSE]
    /\ tsemo = [salt |-> 0, failAt |-> 0]
    /\ runNo = 1
    /\ random_seed = 0
    /\ firstOutcome = None
    /\ FreshCall

(***************************************************************************)
(* Experiments objects on their own.  A RandomState is an object; the      *)
(* objects are held in randomStates by identity.  "default" is the object  *)
(* that the default value of the random_state parameter of                 *)
(* Experiments.__init__ evaluates to (seeded from the clock: any seed);    *)
(* "A" and "B" are the objects a caller passes to instances A and B.       *)
(***************************************************************************)
Instances == {"A", "B"}

oracleIdle ==
    /\ randomStates = [r \in {"default"} \cup Instances |-> RandomState(0)]
    /\ instances = [x \in Instances |-> None]
    /\ raised = {}
    /\ computed = [x \in Instances |-> <<>>]
    /\ simulations = [x \in Instances |-> 0]
    /\ history = <<>>

OracleInit ==
    /\ solvent_ds \in {Catalog(NumSolvents, bad) : bad \in {0, NumSolvents}}
    /\ \E seed \in Seeds :
          randomStates = [r \in {"default"} \cup Instances |-> RandomState(seed)]
    /\ instances = [x \in Instances |-> None]
    /\ raised = {}
    /\ computed = [x \in Instances |-> <<>>]
    /\ simulations = [x \in Instances |-> 0]
    /\ history = <<>>

\* The object bound to the random_state parameter: the caller's own when it
\* passes one, else the one object of the default value.
BoundRandomState(x, passed) == IF passed THEN x ELSE "default"

\* Experiments(solvent_ds, [random_state], pre_calculate=...)
Construct(x, passed, pre_calculate) ==
    /\ instances[x] = None
    /\ x \notin raised
    /\ history = <<>>
    /\ LET id == BoundRandomState(x, passed)
           e == Experiments_init(solvent_ds, randomStates[id], pre_calculate)
       IN  /\ randomStates' = [randomStates EXCEPT ![id] = e.rs]
           /\ simulations' = [simulations EXCEPT
                                ![x] = @ + (e.rs.pos - randomStates[id].pos)]
           /\ IF e.ok
              THEN /\ instances' = [instances EXCEPT
                          ![x] = Some([random_state |-> id,
                                       pre_calculate |-> e.self.pre_calculate,
                                       all_experiments |-> e.self.all_experiments])]
                   /\ computed' = [computed EXCEPT
                          ![x] = IF pre_calculate
                                 THEN The(e.self.all_experiments) ELSE <<>>]
                   /\ UNCHANGED raised
              ELSE /\ raised' = raised \cup {x}
                   /\ UNCHANGED <<instances, computed>>
    /\ UNCHANGED <<history, solvent_ds, driverLocals, pcsVars, pureVars>>

\* instance.run(solvent_cas)
Run(x, solvent_cas) ==
    /\ instances[x] # None
    /\ Len(history) < MaxCalls
    /\ LET self == The(instances[x])
           rs == randomStates[self.random_state]
           r == Experiments_run(self, solvent_ds, rs, solvent_cas)
       IN  /\ randomStates' = [randomStates EXCEPT ![self.random_state] = r.rs]
           /\ simulations' = [simulations EXCEPT ![x] = @ + (r.rs.pos - rs.pos)]
           /\ history' = Append(history,
                            [instance |-> x,
                             cas |-> solvent_cas,
                             drew |-> r.rs # rs,
                             noise |-> randn(rs),
                             ok |-> r.ok,
                             value |-> IF r.ok THEN r.value ELSE <<0, 0>>])
    /\ UNCHANGED <<instances, raised, computed, solvent_ds, driverLocals,
                   pcsVars, pureVars>>

(***************************************************************************)
(* create_pcs_ds.  values is the descriptor table of solvent_ds_final, one *)
(* row per solvent; an entry is <<"finite", v>>, <<"nan", 0>> or           *)
(* <<"inf", 0>>.                                                           *)
(***************************************************************************)
MaxRows == 2
NumDescriptors == 2

Floats == {<<"finite", 1>>, <<"finite", 2>>, <<"nan", 0>>, <<"inf", 0>>}

pcsIdle ==
    /\ values = <<>>
    /\ pcs_pc = "check"
    /\ pcs_rows = 0

PcsInit ==
    /\ \E n \in 1..MaxRows : values \in [1..n -> [1..NumDescriptors -> Floats]]
    /\ pcs_pc = "check"
    /\ pcs_rows = 0

\* np.isnan(values)
isnan(v) == v[1] = "nan"

IsFinite(v) == v[1] = "finite"

AllFinite(table) ==
    \A r \in 1..Len(table) : \A c \in 1..Len(table[r]) : IsFinite(table[r][c])

\* check.all(): every entry of the array is True
CheckAll(table) ==
    \A r \in 1..Len(table) : \A c \in 1..Len(table[r]) : isnan(table[r][c])

\* assert check.all() == False
AssertionHolds(table) == CheckAll(table) = FALSE

CheckNaNs ==
    /\ pcs_pc = "check"
    /\ pcs_pc' = IF AssertionHolds(values) THEN "pca" ELSE "failed"
    /\ UNCHANGED <<values, pcs_rows, driverVars, oracleVars, pureVars>>

\* PCA(...).fit / fit_transform (scikit-learn): returns on a finite table;
\* on a table with a nan or an inf the outcome is the library's, and either
\* a ValueError or a result is possible as far as this code goes.
FitPCA ==
    /\ pcs_pc = "pca"
    /\ \/ pcs_pc' = "dataset"
       \/ ~AllFinite(values) /\ pcs_pc' = "failed"
    /\ UNCHANGED <<values, pcs_rows, driverVars, oracleVars, pureVars>>

\* pd.concat([metadata_df, pc_ds], axis=1): pc_df has metadata_df's index
BuildDataSet ==
    /\ pcs_pc = "dataset"
    /\ pcs_rows' = Len(values)
    /\ pcs_pc' = "returned"
    /\ UNCHANGED <<values, driverVars, oracleVars, pureVars>>

(***************************************************************************)
(* One call exp._run(solvent_cas, rxn_time) with any reaction time above   *)
(* 0 (in halves of a step) and a random state at any position.             *)
(***************************************************************************)
MaxRxnTime == 12

RunInit ==
    /\ solvent_ds \in {Catalog(NumSolvents, bad) : bad \in {0, NumSolvents}}
    /\ run_args \in [solvent_cas : {CasOf(j) : j \in 1..NumSolvents},
                     rxn_time : 1..MaxRxnTime,
                     random_state : {[seed |-> s, pos |-> p] :
                                        s \in Seeds, p \in 0..MaxCalls}]
    /\ run_result = None

RunCall ==
    /\ run_result = None
    /\ run_result' = Some(_run_rxn_time(solvent_ds, run_args.random_state,
                                        run_args.solvent_cas,
                                        run_args.rxn_time))
    /\ UNCHANGED <<run_args, driverVars, oracleVars, pcsVars, sweepVars,
                   evoVars>>

(***************************************************************************)
(* fullfact: column i of H is the list lvl, each level level_repeat times, *)
(* repeated range_repeat times.  Entries are floats with whole values in   *)
(* the source and are read back with int(index).                           *)
(***************************************************************************)
MaxFactors == 3
MaxLevels == 3
MaxRepeats == 2

\* np.prod
RECURSIVE Prod(_)
Prod(s) == IF s = <<>> THEN 1 ELSE Head(s) * Prod(Tail(s))

\* list * n
RECURSIVE Repeat(_, _)
Repeat(s, n) == IF n <= 0 THEN <<>> ELSE s \o Repeat(s, n - 1)

\* lvl after the loop over j from the given j on
RECURSIVE Lvl(_, _, _)
Lvl(count, level_repeat, j) ==
    IF j >= count THEN <<>>
    ELSE Repeat(<<j>>, level_repeat) \o Lvl(count, level_repeat, j + 1)

\* rng = lvl*range_repeat
Rng(count, level_repeat, range_repeat) ==
    Repeat(Lvl(count, level_repeat, 0), range_repeat)

\* The loop over the factors from factor f on
RECURSIVE FullfactFrom(_, _, _, _, _)
FullfactFrom(lv, f, level_repeat, range_repeat, H) ==
    IF f > Len(lv) THEN H
    ELSE LET rr == range_repeat \div lv[f]
             rng == Rng(lv[f], level_repeat, rr)
         IN  FullfactFrom(lv, f + 1, level_repeat * lv[f], rr,
                          [r \in 1..Len(H) |-> [H[r] EXCEPT ![f] = rng[r]]])

fullfact(lv) ==
    LET n == Len(lv)
        nb_lines == Prod(lv)
        H == [r \in 1..nb_lines |-> [c \in 1..n |-> 0]]
    IN  FullfactFrom(lv, 1, 1, nb_lines, H)

(***************************************************************************)
(* repeat_test                                                             *)
(***************************************************************************)
params ==
    [normalize_inputs |-> <<FALSE, TRUE>>,
     normalize_outputs |-> <<FALSE, TRUE>>,
     batch_size |-> <<4, 8>>,
     design_criterion |-> <<"center", "maximin">>,
     num_initial_experiments |-> <<4, 8, 16>>]

\* The keys of params in the order of the dict
ParamKeys ==
    <<"normalize_inputs", "normalize_outputs", "batch_size",
      "design_criterion", "num_initial_experiments">>

\* levels = [len(params[key]) for key in params]
ParamLevels == [k \in 1..Len(ParamKeys) |-> Len(params[ParamKeys[k]])]

\* {key: params[key][int(index)] for key, index in zip(params, d)}
DesignOf(d) ==
    [normalize_inputs |-> params.normalize_inputs[d[1] + 1],
     normalize_outputs |-> params.normalize_outputs[d[2] + 1],
     batch_size |-> params.batch_size[d[3] + 1],
     design_criterion |-> params.design_criterion[d[4] + 1],
     num_initial_experiments |-> params.num_initial_experiments[d[5] + 1]]

\* num_batches = (40-d['num_initial_experiments'])// d['batch_size'] + 1
NumBatchesOf(d) == ((40 - d.num_initial_experiments) \div d.batch_size) + 1

\* The keyword arguments of the call of descriptors_optimization
repeat_test_kwargs(d, rep) ==
    [batch_size |-> d.batch_size,
     num_batches |-> NumBatchesOf(d),
     num_intial_experiments |-> d.num_initial_experiments,
     num_components |-> NUM_COMPONENTS,
     random_seed |-> RANDOM_SEED + 100 * rep,
     normalize_inputs |-> d.normalize_inputs,
     normalize_outputs |-> d.normalize_outputs,
     design_criterion |-> d.design_criterion]

\* kwargs.get(key, default)
Get(kwargs, key, default) ==
    IF key \in DOMAIN kwargs THEN kwargs[key] ELSE default

\* The locals descriptors_optimization reads from its keyword arguments
descriptors_optimization_kwargs(kwargs) ==
    LET bs == Get(kwargs, "batch_size", BATCH_SIZE)
    IN  [batch_size |-> bs,
         num_batches |-> Get(kwargs, "num_batches", NUM_BATCHES),
         num_components |-> Get(kwargs, "num_components", NUM_COMPONENTS),
         num_initial_experiments |-> Get(kwargs, "num_initial_experiments", bs),
         random_seed |-> Get(kwargs, "random_seed", RANDOM_SEED),
         normalize_inputs |-> Get(kwargs, "normalize_inputs", TRUE),
         normalize_outputs |-> Get(kwargs, "normalize_outputs", TRUE),
         design_criterion |-> Get(kwargs, "design_criterion", "center")]

\* The rows of the ledger a run returns: the seed batch and one batch for
\* each of the num_batches-1 rounds.
LedgerLength(l) == l.num_initial_experiments + l.batch_size * (l.num_batches - 1)

\* descriptors_optimization(**kwargs) as repeat_test sees it: with the pair
\* bound, Experiments.__init__ raises AttributeError before the seed round;
\* with the dataset bound, a run on which neither the integrator nor the
\* strategy fails returns its ledger.
descriptors_optimization(kwargs) ==
    LET l == descriptors_optimization_kwargs(kwargs)
    IN  IF solvent_pcs_ds = "tuple"
        THEN [locals |-> l, outcome |-> "AttributeError", seed_batch |-> 0,
              observations |-> 0]
        ELSE [locals |-> l, outcome |-> "returned",
              seed_batch |-> l.num_initial_experiments,
              observations |-> LedgerLength(l)]

LevelLists == UNION {[1..n -> 1..MaxLevels] : n \in 1..MaxFactors}

SweepInit ==
    /\ \/ /\ sweep_pc = "fullfact"
          /\ levels \in LevelLists
          /\ num_repeats = 0
          /\ solvent_pcs_ds = "DataSet"
       \/ /\ sweep_pc = "repeat_test"
          /\ levels = <<>>
          /\ num_repeats \in 0..MaxRepeats
          /\ solvent_pcs_ds \in PcsBindings
    /\ doe = None
    /\ sweep_j = 0
    /\ sweep_i = 0
    /\ calls = <<>>

notSweepVars == <<driverVars, oracleVars, pcsVars, runVars, evoVars>>

\* fullfact(levels), called on its own
FullFact ==
    /\ sweep_pc = "fullfact"
    /\ doe' = Some(fullfact(levels))
    /\ sweep_pc' = "returned"
    /\ UNCHANGED <<levels, num_repeats, sweep_j, sweep_i, calls, notSweepVars>>

\* repeat_test: the full factorial design
CreateDesign ==
    /\ sweep_pc = "repeat_test"
    /\ levels' = ParamLevels
    /\ doe' = Some(fullfact(ParamLevels))
    /\ sweep_j' = 0
    /\ sweep_pc' = "design"
    /\ UNCHANGED <<num_repeats, sweep_i, calls, notSweepVars>>

\* for j, d in enumerate(designs): the arrays for the summaries
StartDesign ==
    /\ sweep_pc = "design"
    /\ sweep_j < Len(The(doe))
    /\ sweep_i' = 0
    /\ sweep_pc' = "repeat"
    /\ UNCHANGED <<levels, doe, num_repeats, sweep_j, calls, notSweepVars>>

\* for i in range(num_repeats): one call of descriptors_optimization and
\* the saving of its results
RepeatCall ==
    /\ sweep_pc = "repeat"
    /\ sweep_i < num_repeats
    /\ LET d == DesignOf(The(doe)[sweep_j + 1])
           kwargs == repeat_test_kwargs(d, sweep_i)
           res == descriptors_optimization(kwargs)
       IN  /\ calls' = Append(calls, [j |-> sweep_j, i |-> sweep_i, d |-> d,
                                      kwargs |-> kwargs, res |-> res])
           /\ IF res.outcome = "returned"
              THEN sweep_i' = sweep_i + 1 /\ UNCHANGED sweep_pc
              ELSE sweep_pc' = "failed" /\ UNCHANGED sweep_i
    /\ UNCHANGED <<levels, doe, num_repeats, sweep_j, notSweepVars>>

NextDesign ==
    /\ sweep_pc = "repeat"
    /\ sweep_i >= num_repeats
    /\ sweep_j' = sweep_j + 1
    /\ sweep_pc' = "design"
    /\ UNCHANGED <<levels, doe, num_repeats, sweep_i, calls, notSweepVars>>

EndSweep ==
    /\ sweep_pc = "design"
    /\ sweep_j >= Len(The(doe))
    /\ sweep_pc' = "done"
    /\ UNCHANGED <<levels, doe, num_repeats, sweep_j, sweep_i, calls,
                   notSweepVars>>

(***************************************************************************)
(* SolventEvolutionaryOptimization.  __init__ sets batch_size, solvent_ds, *)
(* cas_numbers, _prng, _bounder and _domain and then calls                 *)
(* generate_initial_experiment_data without its experiments argument,      *)
(* which raises TypeError; _generator and _evaluator are followed on the   *)
(* object with the attributes set so far, called as ea.evolve calls them   *)
(* for the initial population: the generator pop_size times, then the      *)
(* evaluator once on the candidates as generated.                          *)
(***************************************************************************)
MaxPopulation == 3

\* random.randint(a, b): any integer N with a <= N <= b
randint(a, b) == a..b

\* The values _generator can return for a catalog of n solvents
_generator(n) == {<<v>> : v \in randint(1, n)}

\* self.cas_numbers[k] for a Python index k >= 0: the value, or IndexError
Lookup(cas, k) ==
    IF k <= Len(cas) - 1
    THEN [ok |-> TRUE, value |-> cas[k + 1]]
    ELSE [ok |-> FALSE, value |-> 0]

\* _evaluator on its first candidate: the lookup of line 411 raises
\* IndexError, or it succeeds and line 412 raises NameError (the module
\* defines no name experiment); either way the call ends there.
_evaluator(cas, cs) ==
    LET look == Lookup(cas, cs[1][1])
    IN  [index |-> cs[1][1],
         cas |-> look.value,
         error |-> IF look.ok THEN "NameError" ELSE "IndexError"]

EvoInit ==
    /\ solvent_ds \in {Catalog(n, 0) : n \in 1..NumSolvents}
    /\ pop_size \in 1..MaxPopulation
    /\ evo_pc = "new"
    /\ evo_error = None
    /\ self_cas_numbers = <<>>
    /\ candidates = <<>>
    /\ evaluated = <<>>

notEvoVars == <<driverVars, oracleVars, pcsVars, runVars, sweepVars>>

\* SolventEvolutionaryOptimization(batch_size, num_batches, seed, solvent_ds)
EvoConstruct ==
    /\ evo_pc = "new"
    /\ self_cas_numbers' = cas_numbers(solvent_ds)
    /\ evo_error' = Some("TypeError")
    /\ evo_pc' = "generate"
    /\ UNCHANGED <<pop_size, candidates, evaluated, notEvoVars>>

\* One call of the generator for the initial population
Generate ==
    /\ evo_pc = "generate"
    /\ Len(candidates) < pop_size
    /\ \E c \in _generator(Len(self_cas_numbers)) :
          candidates' = Append(candidates, c)
    /\ UNCHANGED <<evo_pc, evo_error, self_cas_numbers, pop_size, evaluated,
                   notEvoVars>>

\* The call of the evaluator on the initial population
Evaluate ==
    /\ evo_pc = "generate"
    /\ Len(candidates) = pop_size
    /\ evaluated' = <<_evaluator(self_cas_numbers, candidates)>>
    /\ evo_pc' = "raised"
    /\ UNCHANGED <<evo_error, self_cas_numbers, pop_size, candidates,
                   notEvoVars>>

(***************************************************************************)
(* The specifications.                                                     *)
(***************************************************************************)
vars == <<driverVars, oracleVars, pcsVars, runVars, sweepVars, evoVars>>

runIdle ==
    /\ run_args = <<>>
    /\ run_result = None

sweepIdle ==
    /\ levels = <<>>
    /\ doe = None
    /\ num_repeats = 0
    /\ sweep_pc = "fullfact"
    /\ sweep_j = 0
    /\ sweep_i = 0
    /\ calls = <<>>

evoIdle ==
    /\ evo_pc = "new"
    /\ evo_error = None
    /\ self_cas_numbers = <<>>
    /\ pop_size = 0
    /\ candidates = <<>>
    /\ evaluated = <<>>

pureIdle == runIdle /\ sweepIdle /\ evoIdle

Init == DriverInit /\ oracleIdle /\ pcsIdle /\ pureIdle

Next ==
    \/ Setup
    \/ InitialDesign
    \/ InitialRun
    \/ InitialDataSet
    \/ CreateStorage
    \/ GenerateBatch
    \/ ModelParameters
    \/ LooErrors
    \/ RunExperiment
    \/ CombineData
    \/ Return
    \/ CallAgain

Spec == Init /\ [][Next]_vars

OracleSpecInit ==
    /\ OracleInit
    /\ driverIdle
    /\ solvent_pcs_ds = "DataSet"
    /\ pcsIdle
    /\ pureIdle

OracleNext ==
    \/ \E x \in Instances, passed \in BOOLEAN, pre_calculate \in BOOLEAN :
          Construct(x, passed, pre_calculate)
    \/ \E x \in Instances, j \in 1..RunSolvents : Run(x, CasOf(j))

OracleSpec == OracleSpecInit /\ [][OracleNext]_vars

PcsSpecInit ==
    /\ PcsInit
    /\ driverIdle
    /\ solvent_pcs_ds = "DataSet"
    /\ oracleIdle
    /\ solvent_ds = <<>>
    /\ pureIdle

PcsNext == CheckNaNs \/ FitPCA \/ BuildDataSet

PcsSpec == PcsSpecInit /\ [][PcsNext]_vars

RunSpecInit ==
    /\ RunInit
    /\ driverIdle
    /\ solvent_pcs_ds = "DataSet"
    /\ oracleIdle
    /\ pcsIdle
    /\ sweepIdle
    /\ evoIdle

RunNextStep == RunCall

RunSpec == RunSpecInit /\ [][RunNextStep]_vars

SweepSpecInit ==
    /\ SweepInit
    /\ driverIdle
    /\ solvent_ds = <<>>
    /\ oracleIdle
    /\ pcsIdle
    /\ runIdle
    /\ evoIdle

SweepNext ==
    \/ FullFact
    \/ CreateDesign
    \/ StartDesign
    \/ RepeatCall
    \/ NextDesign
    \/ EndSweep

SweepSpec == SweepSpecInit /\ [][SweepNext]_vars

EvoSpecInit ==
    /\ EvoInit
    /\ driverIdle
    /\ solvent_pcs_ds = "DataSet"
    /\ oracleIdle
    /\ pcsIdle
    /\ runIdle
    /\ sweepIdle

EvoNext ==
    \/ EvoConstruct
    \/ Generate
    \/ Evaluate

EvoSpec == EvoSpecInit /\ [][EvoNext]_vars

\* The steps of one call.
RunStep ==
    \/ Setup
    \/ InitialDesign
    \/ InitialRun
    \/ InitialDataSet
    \/ CreateStorage
    \/ GenerateBatch
    \/ ModelParameters
    \/ LooErrors
    \/ RunExperiment
    \/ CombineData
    \/ Return

(***************************************************************************)
(* Properties of the driver.                                               *)
(***************************************************************************)
\* The positions at which previous_experiments is the ledger after round i:
\* run_optimization has bound it and no exception has been raised.
InLoop == pc \in {"loop", "parameters", "loo", "experiments", "done"}

\* The rows of a ledger tagged with round b
RowsOfRound(ledger, b) == {j \in 1..Len(ledger) : ledger[j].batch = b}

\* C1 as stated: after round r (the seed round is 0) the ledger holds
\* batch_size * (r+1) rows, whatever num_initial_experiments is.
C1_LengthIsBatchSizeTimesRounds ==
    /\ pc = "run_optimization"
          => Len(initial_experiments) = cfg.batch_size
    /\ InLoop => Len(previous_experiments) = cfg.batch_size * (i + 1)

\* C1, amended: after round r the ledger holds num_initial_experiments +
\* batch_size * r rows (batch_size * (r+1) when the seed batch has batch_size
\* rows).
C1_LengthIsSeedPlusBatches ==
    /\ pc = "run_optimization"
          => Len(initial_experiments) = cfg.num_initial_experiments
    /\ InLoop => /\ Len(previous_experiments)
                      = cfg.num_initial_experiments + cfg.batch_size * i
                 /\ (cfg.num_initial_experiments = cfg.batch_size
                        => Len(previous_experiments) = cfg.batch_size * (i + 1))

C1_Witness ==
    /\ pc = "done"
    /\ i = 2
    /\ cfg.num_initial_experiments # cfg.batch_size
    /\ Len(previous_experiments) = cfg.num_initial_experiments + 2 * cfg.batch_size

Terminated == pc \in {"done", "failed"}

\* The diagnostics records a result holds: one per position of its arrays
NumRecords(r) == Len(r.lengthscales)

C2_AtReturn ==
    pc = "done" =>
        /\ proposeCalls = cfg.num_batches - 1
        /\ i = cfg.num_batches - 1
        /\ NumRecords(The(result)) = cfg.num_batches - 1
        /\ Len(The(result).log_likelihoods) = cfg.num_batches - 1
        /\ Len(The(result).loo_cv_errors) = cfg.num_batches - 1
        /\ Len(The(result).hv_improvements) = cfg.num_batches - 1
        /\ \A r \in 1..(cfg.num_batches - 1) :
              /\ The(result).lengthscales[r] # 0
              /\ The(result).log_likelihoods[r] # 0
              /\ The(result).loo_cv_errors[r] # 0
              /\ The(result).hv_improvements[r] # 0
        /\ (cfg.num_batches = 4 /\ cfg.batch_size = 8
              /\ cfg.num_initial_experiments = 8)
              => /\ NumRecords(The(result)) = 3
                 /\ Len(The(result).experiments) = 32

\* The number of steps a call has left at most: every step of a call
\* lowers it, and it is 0 when the call has returned or raised.
StepsOfRound == 4 + cfg.batch_size

StepsLeftAtLoop == (cfg.num_batches - 1 - i) * StepsOfRound + 1

StepsLeft ==
    CASE pc = "start" -> StepsLeftAtLoop + 4 + cfg.num_initial_experiments
      [] pc = "initial_design" -> StepsLeftAtLoop + 3 + cfg.num_initial_experiments
      [] pc = "initial_run" -> StepsLeftAtLoop + 2 + cfg.num_initial_experiments
                                  - Len(new_experiments)
      [] pc = "run_optimization" -> StepsLeftAtLoop + 1
      [] pc = "loop" -> StepsLeftAtLoop
      [] pc = "parameters" -> StepsLeftAtLoop - 1
      [] pc = "loo" -> StepsLeftAtLoop - 2
      [] pc = "experiments" -> StepsLeftAtLoop - 3 - Len(new_experiments)
      [] OTHER -> 0

\* The guards of the steps of a call: some step can be taken
HasNextStep ==
    \/ pc \in {"start", "initial_design", "run_optimization", "parameters",
               "loo"}
    \/ pc = "initial_run" /\ Len(new_experiments) <= Len(initial_design)
    \/ pc = "loop" /\ (LoopContinues \/ ~LoopContinues)
    \/ pc = "experiments" /\ Len(new_experiments) <= Len(design)

\* C2: a call makes at most num_batches-1 proposals; when it returns it has
\* made exactly num_batches-1, whatever values were observed, and returns
\* num_batches-1 filled diagnostics records (3 records and 32 observations
\* for num_batches=4, batch_size=8); and every call ends: until it has
\* returned or raised it has a next step, and each step leaves fewer steps.
C2_FixedBudgetAndTermination ==
    [][/\ proposeCalls <= cfg.num_batches - 1
       /\ proposeCalls' <= cfg.num_batches - 1
       /\ C2_AtReturn
       /\ C2_AtReturn'
       /\ ~Terminated => (StepsLeft > 0 /\ HasNextStep)
       /\ RunStep => (StepsLeft' < StepsLeft /\ StepsLeft' >= 0)]_vars

C2_Witness ==
    /\ pc = "done"
    /\ cfg.num_batches = 4
    /\ cfg.batch_size = 8
    /\ proposeCalls = 3
    /\ Len(The(result).experiments) = 32
    /\ \E a, b \in 1..32 :
          The(result).experiments[a].conversion
              # The(result).experiments[b].conversion

\* The round in which the exception was raised: the seed round while
\* run_optimization has not bound its ledger, else the round of the loop.
FailedRound == IF previous_experiments = <<>> THEN 0 ELSE i + 1

SizeOfRound(b) ==
    IF b = 0 THEN cfg.num_initial_experiments ELSE cfg.batch_size

CompleteRounds(ledger) ==
    \A b \in 0..cfg.num_batches :
        \/ RowsOfRound(ledger, b) = {}
        \/ Cardinality(RowsOfRound(ledger, b)) = SizeOfRound(b)

\* C3: at every point the ledger holds each round either not at all or with
\* its whole batch, and after an oracle failure in round r it holds no row
\* of round r.
C3_NoPartialBatch ==
    /\ CompleteRounds(initial_experiments)
    /\ CompleteRounds(previous_experiments)
    /\ (pc = "failed" /\ The(error)[1] = "RuntimeError")
          => /\ RowsOfRound(initial_experiments, FailedRound) = {}
             /\ RowsOfRound(previous_experiments, FailedRound) = {}

C3_Witness ==
    /\ pc = "failed"
    /\ The(error)[1] = "RuntimeError"
    /\ previous_experiments # <<>>
    /\ Len(new_experiments) >= 1
    /\ Len(new_experiments) < cfg.batch_size
    /\ Len(previous_experiments) = cfg.num_initial_experiments + cfg.batch_size * i

\* C4 as stated: after a failure in round r the ledger and the diagnostics
\* of rounds 0..r-1 are with the caller.
C4_PartialResultsKept ==
    (pc = "failed" /\ previous_experiments # <<>>)
        => result = Some(optimization_results)

\* C4, amended: after a failure the caller holds the exception and no
\* result: the rows of rounds 1..r-1 and the diagnostics were locals of
\* run_optimization.  What the caller of run_optimization still holds is the
\* seed batch it passed in, unchanged.
C4_FailureReturnsNothing ==
    pc = "failed" =>
        /\ result = None
        /\ error # None
        /\ previous_experiments # <<>> =>
              /\ Len(initial_experiments) = cfg.num_initial_experiments
              /\ \A j \in 1..Len(initial_experiments) :
                    /\ initial_experiments[j].batch = 0
                    /\ initial_experiments[j] = previous_experiments[j]

C4_Witness ==
    /\ pc = "failed"
    /\ i >= 1
    /\ Len(previous_experiments) > Len(initial_experiments)
    /\ lengthscales[1] # 0
    /\ result = None

\* C5: an exception ends the call at once: the call is failed as soon as
\* the exception exists, and from then on it makes no proposal and no
\* evaluation, returns no result and never completes.
C5_FailureIsFinal ==
    [][/\ error' # None => pc' = "failed"
       /\ (pc = "failed" /\ runNo' = runNo)
             => /\ pc' = "failed"
                /\ proposeCalls' = proposeCalls
                /\ runCalls' = runCalls
                /\ result' = None]_vars

C5_Witness ==
    /\ pc = "failed"
    /\ proposeCalls >= 1
    /\ proposeCalls < cfg.num_batches - 1
    /\ runCalls >= 1
    /\ runNo = 2
    /\ The(firstOutcome).status = "failed"

C6_FailsExactlyOnNonFinite ==
    /\ pcs_pc = "returned" => (AllFinite(values) /\ pcs_rows = Len(values))
    /\ pcs_pc = "failed" => ~AllFinite(values)
    /\ pcs_pc = "pca" => AllFinite(values)

(***************************************************************************)
(* Properties of the Experiments objects.                                  *)
(***************************************************************************)
\* What instance y would return for solvent_cas if it were called now
NextValue(y, solvent_cas) ==
    LET self == The(instances[y])
        r == Experiments_run(self, solvent_ds, randomStates[self.random_state],
                             solvent_cas)
    IN  IF r.ok THEN <<"value", r.value>> ELSE <<"raises", <<0, 0>>>>

NextValues(y) ==
    IF instances[y] = None THEN <<>>
    ELSE [j \in 1..Len(solvent_ds) |-> NextValue(y, solvent_ds[j].cas)]

\* C8: a call of run() on one instance leaves what every other instance
\* returns as it was, also when the instances were built without a
\* random_state argument.
C8_NoSharedRandomState ==
    [][Len(history') > Len(history)
          => \A y \in Instances \ {history'[Len(history')].instance} :
                NextValues(y)' = NextValues(y)]_vars

PreCalculated(x) == instances[x] # None /\ The(instances[x]).pre_calculate

CallsOf(x) == {k \in 1..Len(history) : history[k].instance = x}

\* C9: an instance built with pre_calculate has made one _run per solvent of
\* the catalog, all of them in __init__; each of its run() calls returns the
\* row computed there for that cas number and draws nothing.
C9_ServedFromCache ==
    \A x \in Instances :
        PreCalculated(x) =>
            /\ simulations[x] = Len(solvent_ds)
            /\ Len(computed[x]) = Len(solvent_ds)
            /\ \A k \in CallsOf(x) :
                  /\ history[k].ok
                  /\ ~history[k].drew
                  /\ history[k].value
                        = computed[x][IndexOf(cas_numbers(solvent_ds),
                                              history[k].cas)]

C9_Witness ==
    \E x \in Instances :
        /\ PreCalculated(x)
        /\ Len(history) = 3
        /\ CallsOf(x) = {1, 2, 3}
        /\ history[1].cas = history[3].cas
        /\ history[1].cas # history[2].cas
        /\ history[1].value # history[2].value
        /\ computed[x][1] # computed[x][2]

IsPrefix(s, t) == Len(s) <= Len(t) /\ SubSeq(t, 1, Len(s)) = s

\* C11: the ledger only grows at its end: within a call every step leaves
\* the rows the ledger holds at their positions with all their fields, the
\* seed batch is its beginning, and a round adds its batch_size rows after
\* the rows of the rounds before.
C11_LedgerIsAppendOnly ==
    [][/\ InLoop => IsPrefix(initial_experiments, previous_experiments)
       /\ (runNo' = runNo /\ previous_experiments # <<>>)
             => IsPrefix(previous_experiments, previous_experiments')
       /\ (runNo' = runNo /\ initial_experiments # <<>>)
             => initial_experiments' = initial_experiments
       /\ (pc = "experiments" /\ pc' = "loop")
             => /\ Len(previous_experiments')
                     = Len(previous_experiments) + cfg.batch_size
                /\ \A j \in 1..Len(previous_experiments) :
                      previous_experiments'[j] = previous_experiments[j]]_vars

C11_Witness ==
    /\ pc = "loop"
    /\ i = 2
    /\ Len(previous_experiments) > Len(initial_experiments) + cfg.batch_size
    /\ IsPrefix(initial_experiments, previous_experiments)
    /\ previous_experiments[1] # previous_experiments[Len(previous_experiments)]

\* The round that appended the row at position j of the ledger
RoundOfPosition(j) ==
    IF j <= cfg.num_initial_experiments THEN 0
    ELSE ((j - cfg.num_initial_experiments - 1) \div cfg.batch_size) + 1

\* C12: every row of the seed batch is tagged 0, every row appended in
\* proposal round r is tagged r, no tag is above the number of rounds done,
\* and the tags never decrease along the ledger.
C12_RoundTagsInOrder ==
    /\ \A j \in 1..Len(initial_experiments) : initial_experiments[j].batch = 0
    /\ \A j \in 1..Len(previous_experiments) :
          /\ previous_experiments[j].batch = RoundOfPosition(j)
          /\ previous_experiments[j].batch \in 0..i
          /\ previous_experiments[j].batch <= cfg.num_batches - 1
    /\ \A a, b \in 1..Len(previous_experiments) :
          a <= b => previous_experiments[a].batch <= previous_experiments[b].batch

C12_Witness ==
    /\ pc = "done"
    /\ cfg.batch_size = 2
    /\ cfg.num_initial_experiments = 1
    /\ Len(previous_experiments) = 5
    /\ [j \in 1..5 |-> previous_experiments[j].batch] = <<0, 1, 1, 2, 2>>

\* The diagnostics record of proposal round k: position k of each array
\* (index k-1 of the numpy arrays).
RecordOf(k) ==
    <<lengthscales[k], log_likelihoods[k], loo_errors[k], hv_improvements[k]>>

NoRecord == <<0, 0, 0, 0>>

Captured(k) ==
    /\ lengthscales[k] # 0
    /\ log_likelihoods[k] # 0
    /\ hv_improvements[k] # 0

Filled(k) == Captured(k) /\ loo_errors[k] # 0

SeedRound == pc \in {"start", "initial_design", "initial_run", "run_optimization"}

\* C13: nothing is recorded in the seed round and the arrays have one
\* position per proposal round; the record of round r is written in round r
\* (the model values with the hypervolume improvement first, then the
\* leave-one-out error) at position r; the records of later rounds are
\* still empty, and no step changes the record of another round or a value
\* already written.
C13_OneRecordPerProposalRound ==
    [][/\ SeedRound => diagVars = <<(<<>>), (<<>>), (<<>>), (<<>>)>>
       /\ InLoop =>
             /\ Len(lengthscales) = cfg.num_batches - 1
             /\ Len(log_likelihoods) = cfg.num_batches - 1
             /\ Len(loo_errors) = cfg.num_batches - 1
             /\ Len(hv_improvements) = cfg.num_batches - 1
             /\ \A k \in 1..(cfg.num_batches - 1) :
                   /\ k <= i => Filled(k)
                   /\ k > i + 1 => RecordOf(k) = NoRecord
                   /\ (k = i + 1 /\ pc \in {"loop", "parameters"})
                         => RecordOf(k) = NoRecord
                   /\ (k = i + 1 /\ pc = "loo")
                         => (Captured(k) /\ loo_errors[k] = 0)
                   /\ (k = i + 1 /\ pc = "experiments") => Filled(k)
       /\ (runNo' = runNo /\ lengthscales # <<>>) =>
             \A k \in 1..Len(lengthscales) :
                /\ RecordOf(k)' # RecordOf(k)
                      => (k = i + 1 /\ pc \in {"parameters", "loo"})
                /\ lengthscales[k] # 0 => lengthscales'[k] = lengthscales[k]
                /\ log_likelihoods[k] # 0
                      => log_likelihoods'[k] = log_likelihoods[k]
                /\ loo_errors[k] # 0 => loo_errors'[k] = loo_errors[k]
                /\ hv_improvements[k] # 0
                      => hv_improvements'[k] = hv_improvements[k]]_vars

C13_Witness ==
    /\ pc = "done"
    /\ cfg.num_batches = 3
    /\ Filled(1)
    /\ Filled(2)
    /\ RecordOf(1) # RecordOf(2)
    /\ loo_errors[1] # loo_errors[2]

\* C15: a proposal round goes through its steps in one order: the proposal
\* (at the head of the loop, with the rounds before complete), then the
\* capture of the model values and of the hypervolume improvement, then the
\* leave-one-out errors, then the evaluations of the batch one by one, then
\* the append of the whole batch, which alone starts the next round.
C15_StepsOfRoundInOrder ==
    [][runNo' = runNo =>
         /\ pc = "loop" => (proposeCalls = i /\ new_experiments = <<>>)
         /\ pc \in {"parameters", "loo", "experiments"} => proposeCalls = i + 1
         /\ proposeCalls' # proposeCalls
               => (pc = "loop" /\ pc' \in {"parameters", "failed"}
                     /\ proposeCalls' = i + 1 /\ i' = i)
         /\ pc = "parameters"
               => (pc' = "loo" /\ RecordOf(i + 1) = NoRecord
                     /\ Captured(i + 1)' /\ loo_errors'[i + 1] = 0
                     /\ hv_improvements'[i + 1] = hv_imp
                     /\ runCalls' = runCalls
                     /\ previous_experiments' = previous_experiments)
         /\ pc = "loo"
               => (pc' = "experiments" /\ Filled(i + 1)'
                     /\ runCalls' = runCalls
                     /\ previous_experiments' = previous_experiments)
         /\ (runCalls' # runCalls /\ InLoop)
               => (pc = "experiments" /\ Filled(i + 1)
                     /\ pc' \in {"experiments", "failed"}
                     /\ previous_experiments' = previous_experiments)
         /\ (previous_experiments # <<>>
               /\ previous_experiments' # previous_experiments)
               => (pc = "experiments" /\ pc' = "loop"
                     /\ Len(new_experiments) = cfg.batch_size
                     /\ runCalls' = runCalls)
         /\ i' # i => (pc = "experiments" /\ pc' = "loop" /\ i' = i + 1
                         /\ previous_experiments' # previous_experiments)]_vars

C15_Witness ==
    /\ pc = "experiments"
    /\ i = 1
    /\ cfg.batch_size = 2
    /\ Len(new_experiments) = 1
    /\ proposeCalls = 2
    /\ Filled(1)
    /\ Filled(2)

\* C16: the k-th call of the strategy (proposal round k) is given the
\* ledger as it is after round k-1: the seed batch and the whole batch of
\* every round before k, in append order, and no row of round k or later;
\* the batch it returns is the one the round evaluates.
C16_ProposalSeesAllEarlierRounds ==
    /\ Len(proposals) = proposeCalls
    /\ \A k \in 1..Len(proposals) :
          LET given == proposals[k].previous_experiments
          IN  /\ proposals[k].i = k - 1
              /\ Len(given) = cfg.num_initial_experiments
                                 + cfg.batch_size * (k - 1)
              /\ \A b \in 0..(k - 1) :
                    Cardinality(RowsOfRound(given, b)) = SizeOfRound(b)
              /\ \A j \in 1..Len(given) : given[j].batch < k
              /\ IsPrefix(initial_experiments, given)
              /\ IsPrefix(given, previous_experiments)
              /\ k = Len(proposals) =>
                    \/ given = previous_experiments
                    \/ pc \in {"loop", "done"}
                          /\ Len(previous_experiments)
                                = Len(given) + cfg.batch_size
    /\ pc \in {"parameters", "loo", "experiments"} =>
          design = generate_experiments(tsemo, solvent_ds,
                                        previous_experiments, cfg.batch_size,
                                        normalize_inputs, normalize_outputs,
                                        proposeCalls).design

C16_Witness ==
    /\ pc = "parameters"
    /\ Len(proposals) = 2
    /\ Len(proposals[2].previous_experiments)
          = Len(proposals[1].previous_experiments) + cfg.batch_size
    /\ proposals[1].previous_experiments = initial_experiments
    /\ \E j \in 1..Len(previous_experiments) : previous_experiments[j].batch = 1
    /\ proposals[2].previous_experiments = previous_experiments

\* C17: in every proposal round the strategy is called with the
\* normalize_inputs and normalize_outputs of the run's keyword arguments.
C17_ConfiguredFlagsReachStrategy ==
    \A k \in 1..Len(proposals) :
        /\ proposals[k].normalize_inputs = cfg.normalize_inputs
        /\ proposals[k].normalize_outputs = cfg.normalize_outputs

\* C19: the row labels of the seed batch and of the ledger are 0, 1, 2, ...
\* in append order (and so pairwise distinct), whatever the size of the
\* seed batch is.
C19_RowLabelsAreZeroToLen ==
    /\ \A j \in 1..Len(initial_experiments) :
          initial_experiments[j].index = j - 1
    /\ \A j \in 1..Len(previous_experiments) :
          previous_experiments[j].index = j - 1

(***************************************************************************)
(* Properties of Experiments._run as a function of the reaction time.      *)
(***************************************************************************)
InPercent(v) == v \in 0..100

\* The number of points of trange in the call
PointsOfCall ==
    NumPoints(Perturbed(run_args.rxn_time, randn(run_args.random_state)))

\* C14 as stated: for every reaction time above 0 the call returns a
\* conversion and a selectivity that are both numbers of [0, 100].
C14_AlwaysInRange ==
    (run_result # None /\ The(run_result).ok)
        => /\ ~The(run_result).nan
           /\ InPercent(The(run_result).value[1])
           /\ InPercent(The(run_result).value[2])

\* C14, amended: conversion and selectivity are both in [0, 100] when the
\* perturbed reaction time is at least two steps, which it is for the
\* default reaction time; between one and two steps the conversion is 0 and
\* the selectivity is 0/0, and below one step the call raises IndexError.
C14_InRangeFromTwoPoints ==
    run_result # None =>
        LET r == The(run_result)
            stiff == Loc(solvent_ds, run_args.solvent_cas).stiff
        IN  /\ (PointsOfCall >= 2 /\ ~stiff)
                  => (r.ok /\ ~r.nan /\ InPercent(r.value[1])
                        /\ InPercent(r.value[2]))
            /\ (PointsOfCall >= 2 /\ stiff)
                  => (~r.ok /\ r.error[1] = "RuntimeError")
            /\ PointsOfCall = 1 => (r.ok /\ r.nan /\ r.value[1] = 0)
            /\ PointsOfCall = 0 => (~r.ok /\ r.error[1] = "IndexError")
            /\ run_args.rxn_time >= rxn_time => PointsOfCall >= 2

C14_Witness ==
    /\ run_result # None
    /\ The(run_result).ok
    /\ run_args.rxn_time = MaxRxnTime
    /\ randn(run_args.random_state) = 1
    /\ The(run_result).value[1] > 50
    /\ InPercent(The(run_result).value[1])
    /\ The(run_result).value[2] > 50
    /\ InPercent(The(run_result).value[2])

(***************************************************************************)
(* Properties of fullfact and of repeat_test.                              *)
(***************************************************************************)
RECURSIVE MaxOf(_)
MaxOf(s) ==
    IF s = <<>> THEN 0
    ELSE IF Head(s) >= MaxOf(Tail(s)) THEN Head(s) ELSE MaxOf(Tail(s))

\* The Cartesian product of the level ranges 0..lv[f]-1
Combinations(lv) ==
    {c \in [1..Len(lv) -> 0..(MaxOf(lv) - 1)] :
        \A f \in 1..Len(lv) : c[f] < lv[f]}

\* fullfact returns prod(levels) rows, each a combination of the level
\* ranges, pairwise distinct, and every combination is one of them.
FullfactEnumeratesProduct ==
    doe # None =>
        LET H == The(doe)
        IN  /\ Len(H) = Prod(levels)
            /\ \A r \in 1..Len(H) : H[r] \in Combinations(levels)
            /\ \A a, b \in 1..Len(H) : a # b => H[a] # H[b]
            /\ \A c \in Combinations(levels) : \E r \in 1..Len(H) : H[r] = c

\* The calls of descriptors_optimization for design j that returned
RunsOf(j) ==
    {k \in 1..Len(calls) : calls[k].j = j /\ calls[k].res.outcome = "returned"}

\* repeat_test ends by returning, with num_repeats runs of every design.
SweepRunsEveryDesign ==
    sweep_pc \in {"done", "failed"} =>
        /\ sweep_pc = "done"
        /\ \A j \in 0..(Len(The(doe)) - 1) :
              Cardinality(RunsOf(j)) = num_repeats

\* C18: fullfact returns each combination of the level ranges exactly once,
\* and repeat_test runs the core loop num_repeats times for each of them.
C18_EveryCombinationRunNumRepeatsTimes ==
    FullfactEnumeratesProduct /\ SweepRunsEveryDesign

\* C20: every call of descriptors_optimization made by repeat_test runs with
\* a seed batch of the design's num_initial_experiments rows, so that it
\* returns num_initial_experiments + batch_size * (num_batches - 1)
\* observations, at most 40.
C20_SweepUsesDesignSeedSize ==
    \A k \in 1..Len(calls) :
        LET c == calls[k]
        IN  /\ c.res.seed_batch = c.d.num_initial_experiments
            /\ c.res.observations
                  = c.d.num_initial_experiments
                      + c.d.batch_size * (NumBatchesOf(c.d) - 1)
            /\ c.res.observations <= 40

(***************************************************************************)
(* Properties of SolventEvolutionaryOptimization.                          *)
(***************************************************************************)
\* The indices of self.cas_numbers
CatalogIndices == 0..(Len(self_cas_numbers) - 1)

\* C21: every index the generator returns and the evaluator looks up is an
\* index of the catalog, and the generator can return every index of the
\* catalog.
C21_GeneratedIndicesAreCatalogIndices ==
    evo_pc # "new" =>
        /\ \A k \in 1..Len(candidates) : candidates[k][1] \in CatalogIndices
        /\ \A k \in 1..Len(evaluated) : evaluated[k].error # "IndexError"
        /\ {c[1] : c \in _generator(Len(self_cas_numbers))} = CatalogIndices

====
